---- MODULE Spec2Model ----
(***************************************************************************)
(* Model of the call components of the AI Voice Agent Tool front end:      *)
(*   - the Retell call interface (components/ui/ScenarioCard.tsx, second   *)
(*     component of the file) with its summarizer generateSummary and the  *)
(*     transcript kept by hooks/useRetell.ts;                              *)
(*   - the PIPECAT call interface (components/CallInterface.tsx, second    *)
(*     component of the file) with generateDispatcherResponse and its      *)
(*     summarizer analyzeCallTranscript;                                   *)
(*   - the agent configuration (AgentConfiguration) that holds the         *)
(*     emergency phrases and the scenario's field list.                    *)
(* Transcripts are real strings: JavaScript's toLowerCase, includes, match *)
(* and slice are computed character by character.                          *)
(***************************************************************************)
EXTENDS Integers, Sequences, FiniteSets, TLC

(***************************************************************************)
(* JavaScript string primitives                                            *)
(***************************************************************************)
UpperChars == "ABCDEFGHIJKLMNOPQRSTUVWXYZ"
LowerChars == "abcdefghijklmnopqrstuvwxyz"
DigitChars == {"0", "1", "2", "3", "4", "5", "6", "7", "8", "9"}
UpperSet == {SubSeq(UpperChars, i, i) : i \in 1..26}
LowerSet == {SubSeq(LowerChars, i, i) : i \in 1..26}
\* \s of a JavaScript regular expression, for the characters transcripts hold
SpaceChars == {" ", "\n", "\t", "\r"}

CharAt(s, i) == SubSeq(s, i, i)

LowerTable ==
  [c \in UpperSet |->
     LET i == CHOOSE j \in 1..26 : SubSeq(UpperChars, j, j) = c
     IN  SubSeq(LowerChars, i, i)]

LowerChar(c) == IF c \in UpperSet THEN LowerTable[c] ELSE c

\* String.prototype.toLowerCase
RECURSIVE toLowerCase(_)
toLowerCase(s) ==
  IF Len(s) = 0 THEN ""
  ELSE IF Len(s) = 1 THEN LowerChar(s)
  ELSE LET h == Len(s) \div 2
       IN  toLowerCase(SubSeq(s, 1, h)) \o toLowerCase(SubSeq(s, h + 1, Len(s)))

\* String.prototype.includes
includes(s, k) ==
  \E i \in 1..(Len(s) - Len(k) + 1) : SubSeq(s, i, i + Len(k) - 1) = k

\* String.prototype.slice(-n) for 0 < n
sliceLast(s, n) == IF n >= Len(s) THEN s ELSE SubSeq(s, Len(s) - n + 1, Len(s))

\* String.prototype.trim
RECURSIVE trimStart(_)
trimStart(s) ==
  IF Len(s) > 0 /\ CharAt(s, 1) \in SpaceChars
  THEN trimStart(SubSeq(s, 2, Len(s))) ELSE s
RECURSIVE trimEnd(_)
trimEnd(s) ==
  IF Len(s) > 0 /\ CharAt(s, Len(s)) \in SpaceChars
  THEN trimEnd(SubSeq(s, 1, Len(s) - 1)) ELSE s
trim(s) == trimEnd(trimStart(s))

\* the literal k occurs in s at position i, ignoring case (regex flag i)
LitAt(s, i, k) ==
  /\ i + Len(k) - 1 <= Len(s)
  /\ toLowerCase(SubSeq(s, i, i + Len(k) - 1)) = k

\* length of the longest run of digits of s that starts at position i (\d+)
RECURSIVE DigitRun(_, _)
DigitRun(s, i) ==
  IF i <= Len(s) /\ CharAt(s, i) \in DigitChars THEN 1 + DigitRun(s, i + 1) ELSE 0

Max(a, b) == IF a > b THEN a ELSE b

(***************************************************************************)
(* Regular expressions of the summarizers                                  *)
(***************************************************************************)
\* /mile marker \d+|i-\d+/i  : length of the match that starts at i, 0 if none
LocationMatchLen(s, i) ==
  LET c == LowerChar(CharAt(s, i))
  IN  IF c = "m" /\ LitAt(s, i, "mile marker ") /\ DigitRun(s, i + 12) > 0
        THEN 12 + DigitRun(s, i + 12)
      ELSE IF c = "i" /\ LitAt(s, i, "i-") /\ DigitRun(s, i + 2) > 0
        THEN 2 + DigitRun(s, i + 2)
      ELSE 0

\* /\d{1,2}:\d{2}|\d+ pm|\d+ am/i  : length of the match that starts at i
EtaMatchLen(s, i) ==
  LET d == IF CharAt(s, i) \in DigitChars THEN DigitRun(s, i) ELSE 0
  IN  IF d = 0 THEN 0
      ELSE IF d >= 2 /\ i + 2 <= Len(s) /\ CharAt(s, i + 2) = ":" /\ DigitRun(s, i + 3) >= 2
        THEN 5
      ELSE IF i + 1 <= Len(s) /\ CharAt(s, i + 1) = ":" /\ DigitRun(s, i + 2) >= 2
        THEN 4
      ELSE IF LitAt(s, i + d, " pm") THEN d + 3
      ELSE IF LitAt(s, i + d, " am") THEN d + 3
      ELSE 0

RegexMatchLen(regex, s, i) ==
  IF regex = "LOCATION" THEN LocationMatchLen(s, i) ELSE EtaMatchLen(s, i)

\* extractFromTranscript: text.match(regex), match[0] or ''
extractFromTranscript(text, regex) ==
  LET M == {i \in 1..Len(text) : RegexMatchLen(regex, text, i) > 0}
  IN  IF M = {} THEN ""
      ELSE LET i == CHOOSE j \in M : \A k \in M : j <= k
           IN  SubSeq(text, i, i + RegexMatchLen(regex, text, i) - 1)

\* JavaScript's  a || b  on strings
OrElse(a, b) == IF a = "" THEN b ELSE a

\* [A-Za-z0-9\s]
LocClass == UpperSet \cup LowerSet \cup DigitChars \cup SpaceChars
\* (?:\s|$|,|\.|;) at position p
LocTerminatorAt(s, p) == p > Len(s) \/ CharAt(s, p) \in (SpaceChars \cup {",", ".", ";"})

RECURSIVE SpaceRun(_, _)
SpaceRun(s, i) ==
  IF i <= Len(s) /\ CharAt(s, i) \in SpaceChars THEN 1 + SpaceRun(s, i + 1) ELSE 0
\* (?:at|near|on) at position i: the length of the alternative that matches
AtNearOnLen(s, i) ==
  LET c == LowerChar(CharAt(s, i))
  IN  IF c = "a" /\ LitAt(s, i, "at") THEN 2
      ELSE IF c = "n" /\ LitAt(s, i, "near") THEN 4
      ELSE IF c = "o" /\ LitAt(s, i, "on") THEN 2
      ELSE 0

\* ([A-Za-z0-9\s]+?)(?:\s|$|,|\.|;) from position st: the length of the lazy
\* group, the shortest of at least g characters that a terminator follows;
\* 0 when the group meets a character outside its class first
RECURSIVE LazyGroupLen(_, _, _)
LazyGroupLen(s, st, g) ==
  IF st + g - 1 > Len(s) \/ CharAt(s, st + g - 1) \notin LocClass THEN 0
  ELSE IF LocTerminatorAt(s, st + g) THEN g
  ELSE LazyGroupLen(s, st, g + 1)

\* \s+ is greedy: the blanks it keeps, the most of 1..w that let the rest
\* match; 0 when no number does
RECURSIVE GreedyBlanks(_, _, _)
GreedyBlanks(s, p, ws) ==
  IF ws = 0 THEN 0
  ELSE IF LazyGroupLen(s, p + ws, 1) > 0 THEN ws
  ELSE GreedyBlanks(s, p, ws - 1)

\* /(?:at|near|on)\s+([A-Za-z0-9\s]+?)(?:\s|$|,|\.|;)/i matches at position i
AnalyzeMatchAt(s, i) ==
  LET k == AtNearOnLen(s, i)
  IN  k > 0 /\ GreedyBlanks(s, i + k, SpaceRun(s, i + k)) > 0

\* transcript.match(...): whether it matched, and group 1
AnalyzeLocationMatch(s) ==
  LET M == {i \in 1..Len(s) : AnalyzeMatchAt(s, i)}
  IN  IF M = {} THEN [matched |-> FALSE, group |-> ""]
      ELSE LET i  == CHOOSE j \in M : \A k \in M : j <= k
               p  == i + AtNearOnLen(s, i)
               ws == GreedyBlanks(s, p, SpaceRun(s, p))
               g  == LazyGroupLen(s, p + ws, 1)
           IN  [matched |-> TRUE, group |-> SubSeq(s, p + ws, p + ws + g - 1)]

(***************************************************************************)
(* Call data entered in the form (CallRequest)                             *)
(***************************************************************************)
driverName == "Mike"
loadNumber == "7891"

\* generateSummary with the outcome of the in-transit branches written into
\* the arrival branch as well
generateSummaryArrivalInTransit(transcript) ==
  LET lowerTranscript == toLowerCase(transcript)
      has(k) == includes(lowerTranscript, k)
  IN  IF has("emergency") \/ has("blowout") \/ has("accident") \/ has("breakdown") THEN
        [call_outcome |-> "Emergency Escalation",
         driver_status |-> "Emergency",
         current_location |-> OrElse(extractFromTranscript(transcript, "LOCATION"), "I-10 mile marker 78"),
         eta |-> "Delayed due to emergency",
         delay_reason |-> "Emergency",
         unloading_status |-> "N/A",
         pod_reminder_acknowledged |-> FALSE,
         emergency_type |-> IF has("blowout") THEN "Breakdown" ELSE "Other",
         safety_status |-> "Driver confirmed everyone is safe",
         injury_status |-> "No injuries reported",
         emergency_location |-> "I-10 eastbound mile marker 78",
         load_secure |-> TRUE,
         escalation_status |-> "Connected to Human Dispatcher"]
      ELSE IF has("late") \/ has("delay") \/ has("traffic") \/ has("construction") THEN
        [call_outcome |-> "In-Transit Update",
         driver_status |-> "Delayed",
         current_location |-> OrElse(extractFromTranscript(transcript, "LOCATION"), "I-10 mile marker 65"),
         eta |-> OrElse(extractFromTranscript(transcript, "ETA"), "5:00 PM"),
         delay_reason |-> IF has("traffic") THEN "Heavy Traffic"
                          ELSE IF has("construction") THEN "Heavy Traffic" ELSE "Other",
         unloading_status |-> "N/A",
         pod_reminder_acknowledged |-> TRUE]
      ELSE IF has("arrived") \/ has("here") \/ has("dock") \/ has("unloading") THEN
        [call_outcome |-> "In-Transit Update",
         driver_status |-> "Arrived",
         current_location |-> "At destination dock",
         eta |-> "Already arrived",
         delay_reason |-> "None",
         unloading_status |-> IF has("door") THEN "In Door"
                              ELSE IF has("waiting") THEN "Waiting for Lumper" ELSE "At Dock",
         pod_reminder_acknowledged |-> TRUE]
      ELSE
        [call_outcome |-> "In-Transit Update",
         driver_status |-> "Driving",
         current_location |-> OrElse(extractFromTranscript(transcript, "LOCATION"), "I-10 mile marker 85"),
         eta |-> OrElse(extractFromTranscript(transcript, "ETA"), "2:00 PM"),
         delay_reason |-> "None",
         unloading_status |-> "N/A",
         pod_reminder_acknowledged |-> has("pod") \/ has("delivery")]

(***************************************************************************)
(* generateSummary (Retell call interface)                                 *)
(***************************************************************************)
generateSummary(transcript) ==
  LET lowerTranscript == toLowerCase(transcript)
      has(k) == includes(lowerTranscript, k)
  IN  IF has("emergency") \/ has("blowout") \/ has("accident") \/ has("breakdown") THEN
        [call_outcome |-> "Emergency Escalation",
         driver_status |-> "Emergency",
         current_location |-> OrElse(extractFromTranscript(transcript, "LOCATION"), "I-10 mile marker 78"),
         eta |-> "Delayed due to emergency",
         delay_reason |-> "Emergency",
         unloading_status |-> "N/A",
         pod_reminder_acknowledged |-> FALSE,
         emergency_type |-> IF has("blowout") THEN "Breakdown" ELSE "Other",
         safety_status |-> "Driver confirmed everyone is safe",
         injury_status |-> "No injuries reported",
         emergency_location |-> "I-10 eastbound mile marker 78",
         load_secure |-> TRUE,
         escalation_status |-> "Connected to Human Dispatcher"]
      ELSE IF has("late") \/ has("delay") \/ has("traffic") \/ has("construction") THEN
        [call_outcome |-> "In-Transit Update",
         driver_status |-> "Delayed",
         current_location |-> OrElse(extractFromTranscript(transcript, "LOCATION"), "I-10 mile marker 65"),
         eta |-> OrElse(extractFromTranscript(transcript, "ETA"), "5:00 PM"),
         delay_reason |-> IF has("traffic") THEN "Heavy Traffic"
                          ELSE IF has("construction") THEN "Heavy Traffic" ELSE "Other",
         unloading_status |-> "N/A",
         pod_reminder_acknowledged |-> TRUE]
      ELSE IF has("arrived") \/ has("here") \/ has("dock") \/ has("unloading") THEN
        [call_outcome |-> "Arrival Confirmation",
         driver_status |-> "Arrived",
         current_location |-> "At destination dock",
         eta |-> "Already arrived",
         delay_reason |-> "None",
         unloading_status |-> IF has("door") THEN "In Door"
                              ELSE IF has("waiting") THEN "Waiting for Lumper" ELSE "At Dock",
         pod_reminder_acknowledged |-> TRUE]
      ELSE
        [call_outcome |-> "In-Transit Update",
         driver_status |-> "Driving",
         current_location |-> OrElse(extractFromTranscript(transcript, "LOCATION"), "I-10 mile marker 85"),
         eta |-> OrElse(extractFromTranscript(transcript, "ETA"), "2:00 PM"),
         delay_reason |-> "None",
         unloading_status |-> "N/A",
         pod_reminder_acknowledged |-> has("pod") \/ has("delivery")]

(***************************************************************************)
(* analyzeCallTranscript (PIPECAT call interface)                          *)
(***************************************************************************)
emergencyKeywords == {"emergency", "accident", "help", "stuck", "breakdown", "injured"}
delayKeywords == {"late", "delay", "traffic", "behind schedule", "running late"}

analyzeCallTranscript(transcript) ==
  LET lowerTranscript == toLowerCase(transcript)
      hasEmergency == \E keyword \in emergencyKeywords : includes(lowerTranscript, keyword)
      hasDelay == \E keyword \in delayKeywords : includes(lowerTranscript, keyword)
      locationMatch == AnalyzeLocationMatch(transcript)
  IN  [call_outcome |-> IF hasEmergency THEN "emergency" ELSE "completed",
       driver_status |-> IF hasEmergency THEN "emergency" ELSE "checked_in",
       current_location |-> IF locationMatch.matched THEN trim(locationMatch.group) ELSE "unknown",
       eta |-> "unknown",
       delay_reason |-> IF hasDelay THEN "traffic_delay" ELSE "",
       unloading_status |-> "in_progress",
       pod_reminder_acknowledged |-> FALSE]

(***************************************************************************)
(* generateDispatcherResponse (PIPECAT call interface)                     *)
(***************************************************************************)
\* the rule of generateDispatcherResponse that answers driverMessage, 1..9,
\* and 10 for the final return
dispatcherRule(driverMessage) ==
  LET lowerMessage == toLowerCase(driverMessage)
      has(k) == includes(lowerMessage, k)
  IN  IF has("emergency") \/ has("accident") \/ has("help") THEN 1
      ELSE IF has("hear me") \/ has("hello") \/ has("can you") \/ has("hi ") THEN 2
      ELSE IF has("location") \/ has("mile") \/ has("highway") \/ has("exit") THEN 3
      ELSE IF has("delay") \/ has("late") \/ has("traffic") \/ has("behind") THEN 4
      ELSE IF has("delivered") \/ has("unload") \/ has("complete") THEN 5
      ELSE IF has("fuel") \/ has("break") \/ has("rest") THEN 6
      ELSE IF has("weather") \/ has("snow") \/ has("rain") \/ has("road") THEN 7
      ELSE IF has("breakdown") \/ has("truck") \/ has("tire") \/ has("mechanical") THEN 8
      ELSE IF has("no") \/ has("nothing") \/ has("assist") \/ has("can't help") THEN 9
      ELSE 10

dispatcherText(rule) ==
  CASE rule = 1 -> driverName \o ", I understand this is an emergency situation. I'm immediately escalating this to our emergency response team. Can you confirm your exact location and if anyone is injured? Stay on the line."
    [] rule = 2 -> "Yes " \o driverName \o ", I can hear you clearly. Thanks for checking in on load " \o loadNumber \o ". Can you please provide me with your current location and delivery status?"
    [] rule = 3 -> "Thank you for the location update, " \o driverName \o ". What's your estimated time of arrival at the delivery location? Any delays or issues I should be aware of?"
    [] rule = 4 -> "I understand there's a delay, " \o driverName \o ". Please provide me with your updated ETA and the reason for the delay so I can update the customer accordingly."
    [] rule = 5 -> "Excellent work, " \o driverName \o ". Can you confirm the delivery is complete for load " \o loadNumber \o "? Please remember to get the signed POD and send a photo when you have a chance."
    [] rule = 6 -> "Copy that, " \o driverName \o ". Take the time you need for fuel and rest. Safety first. Please update me with your next ETA when you're back on the road."
    [] rule = 7 -> "Thanks for the road condition update, " \o driverName \o ". Drive safely and adjust your speed as needed. Let me know if conditions worsen or if you need to find a safe place to wait it out."
    [] rule = 8 -> driverName \o ", I understand you're having equipment issues. I'm contacting our maintenance team right away. Can you confirm your exact location and the nature of the problem?"
    [] rule = 9 -> "Understood, " \o driverName \o ". Just checking in to make sure everything is going smoothly with load " \o loadNumber \o ". Drive safe and don't hesitate to call if anything comes up."
    [] OTHER -> "Thanks for the update, " \o driverName \o ". I've noted that information for load " \o loadNumber \o ". Is there anything else you need assistance with regarding your delivery?"

generateDispatcherResponse(driverMessage) == dispatcherText(dispatcherRule(driverMessage))

(***************************************************************************)
(* Agent configuration: emergency phrases and scenario field lists         *)
(***************************************************************************)
DEFAULT_EMERGENCY_PHRASES ==
  <<"emergency", "accident", "breakdown", "medical", "help", "urgent",
    "blowout", "crash", "collision", "injury", "hurt", "stuck", "disabled">>

\* SCENARIO_FIELDS, each field by its key
SCENARIO_FIELDS ==
  [general |->
     <<"call_outcome", "driver_status", "current_location", "eta", "delay_reason",
       "unloading_status", "pod_reminder_acknowledged", "emergency_type",
       "safety_status", "injury_status", "emergency_location", "load_secure",
       "escalation_status">>,
   driver_checkin |->
     <<"call_outcome", "driver_status", "current_location", "eta", "delay_reason",
       "unloading_status", "pod_reminder_acknowledged">>,
   emergency_protocol |->
     <<"call_outcome", "emergency_type", "safety_status", "injury_status",
       "emergency_location", "load_secure", "escalation_status">>]

\* FIELD_DEFINITIONS: the options list of each field of type 'select', by key
FIELD_OPTIONS ==
  [call_outcome |-> {"In-Transit Update", "Arrival Confirmation", "Emergency Escalation"},
   driver_status |-> {"Driving", "Delayed", "Arrived", "Unloading"},
   delay_reason |-> {"Heavy Traffic", "Weather", "Mechanical", "Loading/Unloading", "None"},
   unloading_status |-> {"In Door", "Waiting for Lumper", "Detention", "N/A"},
   emergency_type |-> {"Accident", "Breakdown", "Medical", "Other"}]

ScenarioTypes == {"general", "driver_checkin", "emergency_protocol"}

\* Array.prototype.join(', ')
RECURSIVE join(_)
join(seq) ==
  IF Len(seq) = 0 THEN ""
  ELSE IF Len(seq) = 1 THEN seq[1]
  ELSE seq[1] \o ", " \o join(Tail(seq))

\* String.prototype.split(',')
RECURSIVE split(_)
split(s) ==
  LET C == {i \in 1..Len(s) : CharAt(s, i) = ","}
  IN  IF C = {} THEN <<s>>
      ELSE LET i == CHOOSE j \in C : \A k \in C : j <= k
           IN  <<SubSeq(s, 1, i - 1)>> \o split(SubSeq(s, i + 1, Len(s)))

\* the onChange handler of the Emergency Phrases field:
\*   e.target.value.split(',').map(phrase => phrase.trim()).filter(Boolean)
parsePhrases(text) ==
  LET parts == split(text)
      trimmed == [i \in 1..Len(parts) |-> trim(parts[i])]
  IN  SelectSeq(trimmed, LAMBDA ph : ph # "")

\* the initial form state of AgentConfiguration
initialConfig ==
  [scenarioType |-> "general",
   emergencyPhrases |-> DEFAULT_EMERGENCY_PHRASES,
   structuredFields |-> SCENARIO_FIELDS.general]

\* what the operator types into the Emergency Phrases field
PhraseInputs ==
  { join(DEFAULT_EMERGENCY_PHRASES),
    "emergency, accident , breakdown,, pulled over, " }

(***************************************************************************)
(* Utterances: what the driver and the hosted agent say                    *)
(***************************************************************************)
\* 'update' events of the Retell client in one session (all calls together)
MaxUtterances == 3
\* final results of the speech recognizer in one session (all calls together)
MaxSpeech == 2
\* configurations saved in one session; the form is left alone after the last
MaxSaves == 1

RECURSIVE Repeat(_, _)
Repeat(s, n) == IF n = 0 THEN "" ELSE s \o Repeat(s, n - 1)

\* a long radio report of the driver, without any keyword of a summarizer
LongReport == Repeat("copy that ten four ", 52)

\* what the speech recognizer hears
DriverUtterances ==
  { "I just had a blowout on I-10",
    "I need help, I am hurt",
    "My truck had a breakdown",
    "All good" }

\* lines of the hosted agent: the greeting of the check call and step 1 of
\* PROMPT_TEMPLATES.EMERGENCY_PROTOCOL
AgentGreeting ==
  "Hi " \o driverName \o "! This is Dispatch with a check call on load " \o loadNumber
     \o ". Can you give me an update on your status?"
AgentSafety ==
  "I understand this is an emergency. Is everyone safe? Are there any injuries that need immediate medical attention?"

\* the entries update.transcript of the Retell SDK can carry
RetellEntries ==
  [role : {"user"},
   content : {"I just had a blowout on I-10", "I need help, I am hurt", "All good", LongReport}]
    \cup [role : {"agent"}, content : {AgentSafety}]

(***************************************************************************)
(* config.maxTranscriptLength                                              *)
(***************************************************************************)
\* import.meta.env.VITE_MAX_TRANSCRIPT_LENGTH as deployed, 0 when unset
VITE_MAX_TRANSCRIPT_LENGTH == 1000
maxTranscriptLength ==
  Max(IF VITE_MAX_TRANSCRIPT_LENGTH = 0 THEN 10000 ELSE VITE_MAX_TRANSCRIPT_LENGTH, 1000)

(***************************************************************************)
(* useRetell: the 'update' handler                                         *)
(***************************************************************************)
\* update.transcript.map(t => `${t.role === 'agent' ? 'AI' : 'You'}: ${t.content}`).join('\n\n')
RECURSIVE renderUpdate(_)
renderUpdate(entries) ==
  LET line(t) == (IF t.role = "agent" THEN "AI" ELSE "You") \o ": " \o t.content
  IN  IF Len(entries) = 0 THEN ""
      ELSE IF Len(entries) = 1 THEN line(entries[1])
      ELSE line(entries[1]) \o "\n\n" \o renderUpdate(Tail(entries))

\* the truncation keeping maxTranscriptLength characters after the dots
truncateTranscriptKeepingMax(finalTranscript) ==
  IF Len(finalTranscript) > maxTranscriptLength
  THEN "..." \o sliceLast(finalTranscript, maxTranscriptLength)
  ELSE finalTranscript

truncateTranscript(finalTranscript) ==
  IF Len(finalTranscript) > maxTranscriptLength
  THEN "..." \o sliceLast(finalTranscript, maxTranscriptLength - 3)
  ELSE finalTranscript

\* the value the handler passes to setTranscript
updateTranscript(entries) == truncateTranscript(renderUpdate(entries) \o "\n\n")

(***************************************************************************)
(* Text the call interfaces write themselves                               *)
(***************************************************************************)
\* simulateCall of the Retell call interface
simulatedGreeting == "AI: " \o AgentGreeting \o "\n\n"

\* startCall of the PIPECAT call interface; "##" stands for the two UTF-16
\* units of each pictograph of the source text
pipecatGreeting ==
  "Good day " \o driverName \o ", this is dispatch calling about load " \o loadNumber
    \o ". I can hear you clearly. Please give me a status update on your delivery - what's your current location and how are things going?"
pipecatBanner ==
  "## PIPECAT Voice Agent Connected\n\nDispatcher: " \o pipecatGreeting
    \o "\n\n[## Listening for your response]\n\n"

(***************************************************************************)
(* State                                                                   *)
(***************************************************************************)
VARIABLES
  variant,            \* the CallInterface of the build: "retell", "pipecat" or "pipecatHook"
  currentView,        \* App: 'config' | 'call' | 'results'
  agentConfig,        \* App: <<>> for null, else <<the saved configuration>>
  callResult,         \* App: <<>> for null, else <<the result given to onCallEnd>>
  config,             \* AgentConfiguration: the form
  isCallInProgress,   \* CallInterface
  transcript,         \* the hook's transcript
  startStep,          \* Retell interface: startCall is suspended at "api", else "idle"
  retellClient,       \* useRetell: TRUE while the client's call delivers events
  greetingTimer,      \* Retell interface: the timeout of simulateCall is pending
  recognitionRef,     \* PIPECAT interface: "null" | "running" | "stopped"
  orphanRecognition,  \* a recognizer that recognitionRef no longer names still runs
  isMuted,            \* PIPECAT interface
  replyTimers,        \* PIPECAT interface: messages whose 1500 ms reply is pending;
                      \* interface on usePipecat: the pending timeouts, one sequence
                      \* for each batch that was set together
  isConnected,        \* usePipecat, useRetell: isConnected
  hook,               \* a hook on its own: the state, refs and timers of usePipecat, useRetell or useError
  log,                \* the utterances of the call so far, in order (history)
  spoken,             \* updates / speech results of this session (bounds the model)
  saves               \* configurations saved in this session (bounds the model)

appVars == <<currentView, agentConfig, callResult, config>>
callVars == <<isCallInProgress, transcript, startStep, retellClient, greetingTimer,
              recognitionRef, orphanRecognition, isMuted, replyTimers, isConnected, hook, log>>
vars == <<variant, appVars, callVars, spoken, saves>>

\* CallInterface is rendered:  currentView === 'call' && agentConfig
Mounted == currentView = "call" /\ agentConfig # <<>>

\* the state of usePipecat and of useRetell after the first render, apart
\* from isConnected and transcript: isLoading, timerRef and
\* connectionTimeoutRef (0 for null, else the id setInterval / setTimeout
\* returned), the intervals and timeouts that are set (the browser's),
\* webSocketRef ("null", or the readiness of the socket it names), clientRef
\* ("null", or whether the client it names is in a call), and how far the
\* caller is: "new", "started" after startCall, "ended" after endCall
FreshHook ==
  [isLoading |-> FALSE, timerRef |-> 0, intervals |-> {}, connectionTimeoutRef |-> 0,
   timeouts |-> <<>>, webSocketRef |-> "null", clientRef |-> "null", phase |-> "new"]

\* the state of a CallInterface that has just been mounted; an unmounted one
\* has no state, and what its timers and callbacks set is discarded
FreshCall ==
  /\ isCallInProgress' = FALSE
  /\ transcript' = ""
  /\ startStep' = "idle"
  /\ retellClient' = FALSE
  /\ greetingTimer' = FALSE
  /\ recognitionRef' = "null"
  /\ orphanRecognition' = FALSE
  /\ isMuted' = FALSE
  /\ replyTimers' = <<>>
  /\ isConnected' = FALSE
  /\ hook' = FreshHook
  /\ log' = <<>>

Init ==
  /\ variant \in {"retell", "pipecat", "pipecatHook"}
  /\ currentView = "config"
  /\ agentConfig = <<>>
  /\ callResult = <<>>
  /\ config = initialConfig
  /\ isCallInProgress = FALSE
  /\ transcript = ""
  /\ startStep = "idle"
  /\ retellClient = FALSE
  /\ greetingTimer = FALSE
  /\ recognitionRef = "null"
  /\ orphanRecognition = FALSE
  /\ isMuted = FALSE
  /\ replyTimers = <<>>
  /\ isConnected = FALSE
  /\ hook = FreshHook
  /\ log = <<>>
  /\ spoken = 0
  /\ saves = 0

(***************************************************************************)
(* App, Dashboard, AgentConfiguration, CallResults                         *)
(***************************************************************************)
\* setCurrentView(v): the component of the old view is unmounted
SetView(v) ==
  /\ currentView' = v
  /\ config' = initialConfig
  /\ FreshCall

loadScenarioTemplate(scenarioType) ==
  /\ currentView = "config"
  /\ saves < MaxSaves
  /\ config' = [config EXCEPT !.scenarioType = scenarioType,
                              !.structuredFields = SCENARIO_FIELDS[scenarioType]]
  /\ UNCHANGED <<variant, currentView, agentConfig, callResult, callVars, spoken, saves>>

setEmergencyPhrases(text) ==
  /\ currentView = "config"
  /\ saves < MaxSaves
  /\ config' = [config EXCEPT !.emergencyPhrases = parsePhrases(text)]
  /\ UNCHANGED <<variant, currentView, agentConfig, callResult, callVars, spoken, saves>>

handleSave ==
  /\ currentView = "config"
  /\ saves < MaxSaves
  /\ saves' = saves + 1
  /\ agentConfig' = <<config>>
  /\ UNCHANGED <<variant, currentView, callResult, config, callVars, spoken>>

onStartCall ==
  /\ currentView = "config"
  /\ SetView("call")
  /\ UNCHANGED <<variant, agentConfig, callResult, spoken, saves>>

\* Dashboard: onClick={() => !isDisabled && onViewChange(item.id)}
onViewChange(view) ==
  /\ view # currentView
  /\ ~(view = "call" /\ agentConfig = <<>>)
  /\ SetView(view)
  /\ UNCHANGED <<variant, agentConfig, callResult, spoken, saves>>

onBack ==
  /\ Mounted
  /\ SetView("config")
  /\ UNCHANGED <<variant, agentConfig, callResult, spoken, saves>>

\* CallResults is rendered:  currentView === 'results' && callResult
onNewCall ==
  /\ currentView = "results" /\ callResult # <<>>
  /\ SetView("call")
  /\ UNCHANGED <<variant, agentConfig, callResult, spoken, saves>>

onBackToConfig ==
  /\ currentView = "results" /\ callResult # <<>>
  /\ SetView("config")
  /\ UNCHANGED <<variant, agentConfig, callResult, spoken, saves>>

\* App's onCallEnd: setCallResult(result); setCurrentView('results')
onCallEnd(result) ==
  /\ callResult' = <<result>>
  /\ SetView("results")

\* a CallResult whose summary is adjusted to the scenario of the saved
\* configuration
ResultOfScenario(t, summary) ==
  [transcript |-> t,
   summary |-> IF agentConfig[1].scenarioType = "emergency_protocol"
                 THEN [summary EXCEPT !.call_outcome = "Emergency Escalation"]
                 ELSE summary,
   log |-> log, agentConfig |-> agentConfig[1], variant |-> variant]

\* the CallResult, with the utterances of the call and the configuration in
\* force kept beside it
Result(t, summary) ==
  [transcript |-> t, summary |-> summary, log |-> log,
   agentConfig |-> agentConfig[1], variant |-> variant]

(***************************************************************************)
(* The Retell call interface (ScenarioCard.tsx, lines 118-569)             *)
(***************************************************************************)
\* startCall up to its first await
RetellStartCall ==
  /\ Mounted /\ variant = "retell"
  /\ ~isCallInProgress
  /\ isCallInProgress' = TRUE
  /\ startStep' = "api"
  /\ UNCHANGED <<variant, appVars, hook, isConnected, transcript, retellClient, greetingTimer, recognitionRef,
                 orphanRecognition, isMuted, replyTimers, log, spoken, saves>>

\* getUserMedia and api.startCall settle: an access token starts the Retell
\* call, no token starts simulateCall, a rejection ends in the catch block
RetellStartSettles(outcome) ==
  /\ Mounted /\ variant = "retell"
  /\ startStep = "api"
  /\ startStep' = "idle"
  /\ retellClient' = (outcome = "access_token")
  /\ greetingTimer' = (outcome = "no_token")
  /\ isCallInProgress' = IF outcome = "rejected" THEN FALSE ELSE isCallInProgress
  /\ UNCHANGED <<variant, appVars, hook, isConnected, transcript, recognitionRef, orphanRecognition, isMuted,
                 replyTimers, log, spoken, saves>>

\* the timeout of simulateCall
RetellSimulatedGreeting ==
  /\ Mounted /\ variant = "retell"
  /\ greetingTimer
  /\ greetingTimer' = FALSE
  /\ transcript' = transcript \o simulatedGreeting
  /\ log' = Append(log, [role |-> "agent", content |-> AgentGreeting])
  /\ UNCHANGED <<variant, appVars, hook, isConnected, isCallInProgress, startStep, retellClient, recognitionRef,
                 orphanRecognition, isMuted, replyTimers, spoken, saves>>

\* client.on('update'): somebody spoke and the SDK reports the conversation
\* so far.  The handler was created by the first render, where isConnected
\* and isLoading are false, so its handleConnected branch is never taken.
RetellUpdate(entry) ==
  /\ Mounted /\ variant = "retell"
  /\ retellClient
  /\ spoken < MaxUtterances
  /\ spoken' = spoken + 1
  /\ log' = Append(log, entry)
  /\ transcript' = updateTranscript(log')
  /\ UNCHANGED <<variant, appVars, hook, isConnected, isCallInProgress, startStep, retellClient, greetingTimer,
                 recognitionRef, orphanRecognition, isMuted, replyTimers, saves>>

\* client.on('conversationEnded'): the transport has closed the conversation;
\* the hook clears isConnected and isLoading and stops its timer
RetellConversationEnded ==
  /\ Mounted /\ variant = "retell"
  /\ retellClient
  /\ retellClient' = FALSE
  /\ UNCHANGED <<variant, appVars, hook, isConnected, isCallInProgress, transcript, startStep, greetingTimer,
                 recognitionRef, orphanRecognition, isMuted, replyTimers, log, spoken, saves>>

\* endCall: endRetellCall(), setIsCallInProgress(false), onCallEnd(result)
RetellEndCall ==
  /\ Mounted /\ variant = "retell"
  /\ isCallInProgress
  /\ onCallEnd(Result(transcript, generateSummary(transcript)))
  /\ UNCHANGED <<variant, agentConfig, spoken, saves>>

(***************************************************************************)
(* The PIPECAT call interface (CallInterface.tsx, lines 274-776)           *)
(***************************************************************************)
\* startCall: resetCall(), initializeAudioMonitoring() (with a microphone and
\* the SpeechRecognition API a new recognizer is started, every error is
\* swallowed), then api.startCall: setTranscript(banner), or the catch block
PipecatStartCall(recognizer, ok) ==
  /\ Mounted /\ variant = "pipecat"
  /\ ~isCallInProgress
  /\ IF recognizer
       THEN /\ recognitionRef' = "running"
            /\ orphanRecognition' = (orphanRecognition \/ recognitionRef = "running")
       ELSE UNCHANGED <<recognitionRef, orphanRecognition>>
  /\ IF ok
       THEN /\ isCallInProgress' = TRUE
            /\ transcript' = pipecatBanner
            /\ log' = <<[role |-> "agent", content |-> pipecatGreeting]>>
       ELSE /\ isCallInProgress' = FALSE
            /\ transcript' = ""
            /\ log' = <<>>
  /\ UNCHANGED <<variant, appVars, hook, isConnected, startStep, retellClient, greetingTimer, isMuted,
                 replyTimers, spoken, saves>>

\* recognition.onresult with a final result
SpeechResult(finalTranscript) ==
  /\ Mounted /\ variant = "pipecat"
  /\ recognitionRef = "running" \/ orphanRecognition
  /\ spoken < MaxSpeech
  /\ spoken' = spoken + 1
  /\ transcript' = transcript \o "Driver: " \o finalTranscript \o "\n\n"
  /\ replyTimers' = Append(replyTimers, finalTranscript)
  /\ log' = Append(log, [role |-> "user", content |-> finalTranscript])
  /\ UNCHANGED <<variant, appVars, hook, isConnected, isCallInProgress, startStep, retellClient, greetingTimer,
                 recognitionRef, orphanRecognition, isMuted, saves>>

\* the 1500 ms timeout set by recognition.onresult
DispatcherReply ==
  /\ Mounted /\ variant = "pipecat"
  /\ replyTimers # <<>>
  /\ LET response == generateDispatcherResponse(toLowerCase(Head(replyTimers)))
     IN  /\ transcript' = transcript \o "Dispatcher: " \o response \o "\n\n"
         /\ log' = Append(log, [role |-> "agent", content |-> response])
  /\ replyTimers' = Tail(replyTimers)
  /\ UNCHANGED <<variant, appVars, hook, isConnected, isCallInProgress, startStep, retellClient, greetingTimer,
                 recognitionRef, orphanRecognition, isMuted, spoken, saves>>

handleToggleMute ==
  /\ Mounted /\ variant = "pipecat"
  /\ isCallInProgress
  /\ isMuted' = ~isMuted
  /\ recognitionRef' = IF recognitionRef = "null" THEN "null"
                       ELSE IF isMuted THEN "running" ELSE "stopped"
  /\ UNCHANGED <<variant, appVars, hook, isConnected, isCallInProgress, transcript, startStep, retellClient,
                 greetingTimer, orphanRecognition, replyTimers, log, spoken, saves>>

\* endCall: the recognizer is stopped, the transcript analysed, the result
\* posted to /api/calls/complete (a failure is swallowed) and given to onCallEnd
PipecatEndCall ==
  /\ Mounted /\ variant = "pipecat"
  /\ isCallInProgress
  /\ LET callTranscript == transcript   \* transcript || ''
     IN  onCallEnd(Result(callTranscript, analyzeCallTranscript(callTranscript)))
  /\ UNCHANGED <<variant, agentConfig, spoken, saves>>

(***************************************************************************)
(* The call interface on the usePipecat hook (CallInterface.tsx, lines     *)
(* 1-272, with usePipecat.ts)                                              *)
(***************************************************************************)
MaxPending == 1
MaxHookSpeech == 1

\* a pending timeout: what it does when it fires, the least and the greatest
\* delay it can have been set with (ms), and whether the call that set it has
\* been ended since
Timeout(effect, text, least, greatest) ==
  [effect |-> effect, text |-> text, least |-> least, greatest |-> greatest, ended |-> FALSE]

\* simulateCall: four timeouts of 500, 1500, 4000 and 10000 ms
simulateCallLines ==
  <<"## PIPECAT Voice Agent Connected - Microphone Active\n\n",
    "AI Dispatcher: Good day " \o driverName
      \o ", this is dispatch calling regarding load number " \o loadNumber
      \o ". I can hear you clearly through the PIPECAT system. Please speak into your microphone to give me a status update on your delivery. How are you doing today and what's your current location?\n\n",
    "[## Listening for your voice - Speak now to respond to the dispatcher]\n\n",
    "AI Dispatcher: I'm ready to hear your response. Please make sure your microphone is unmuted and speak clearly about your current status and location.\n\n">>
simulateCallDelays == <<500, 1500, 4000, 10000>>
simulateCall ==
  [i \in 1..4 |->
     Timeout("append", simulateCallLines[i], simulateCallDelays[i], simulateCallDelays[i])]

\* usePipecat's startCall with a link of the demo server: a timeout of
\* 1500 ms sets isConnected; it is set just before the ones of simulateCall,
\* so it fires after the first and before the second of them
demoCall ==
  <<simulateCall[1], Timeout("connect", "", 1500, 1500)>> \o SubSeq(simulateCall, 2, 4)

\* recognition.onresult of usePipecat: the replies one of which is drawn
responses ==
  {"Got it, thank you for that update.",
   "I understand. What's your current location?",
   "Okay, and what's your estimated arrival time?",
   "Is everything secure with the load?",
   "Thanks for letting me know. Drive safely!",
   "I'll make note of that in the system."}

\* what is said into the microphone of this interface
HookUtterances == {"All good"}

\* startCall: resetCall(), getUserMedia and api.startCall; with a link
\* usePipecat's startCall (voice capture, the connection timeout of the demo
\* server), then simulateCall(); a rejection ends in the catch block.
\* Timeouts are never cleared.
HookStartCall(outcome) ==
  /\ Mounted /\ variant = "pipecatHook"
  /\ ~isCallInProgress /\ ~isConnected
  /\ Len(replyTimers) <= MaxPending
  /\ isCallInProgress' = (outcome # "rejected")
  /\ transcript' = ""
  /\ log' = <<>>
  /\ recognitionRef' = IF outcome = "web_call_link" THEN "running" ELSE recognitionRef
  /\ replyTimers' = CASE outcome = "web_call_link" -> Append(replyTimers, demoCall)
                      [] outcome = "no_link" -> Append(replyTimers, simulateCall)
                      [] OTHER -> replyTimers
  /\ UNCHANGED <<variant, appVars, hook, isConnected, startStep, retellClient, greetingTimer,
                 orphanRecognition, isMuted, spoken, saves>>

\* recognition.onresult of usePipecat with a final result: the driver's line
\* is appended and a reply is due in 1500 to 2500 ms
HookSpeechResult(finalTranscript) ==
  /\ Mounted /\ variant = "pipecatHook"
  /\ recognitionRef = "running"
  /\ trim(finalTranscript) # ""
  /\ spoken < MaxHookSpeech
  /\ spoken' = spoken + 1
  /\ transcript' = transcript \o "Driver: " \o trim(finalTranscript) \o "\n\n"
  /\ log' = Append(log, [role |-> "user", content |-> trim(finalTranscript)])
  /\ replyTimers' = Append(replyTimers, <<Timeout("reply", "", 1500, 2500)>>)
  /\ UNCHANGED <<variant, appVars, hook, isConnected, isCallInProgress, startStep, retellClient,
                 greetingTimer, recognitionRef, orphanRecognition, isMuted, saves>>

\* the oldest timeout of batch b fires.  Timeouts of one batch fire in the
\* order of their delays; how the batches interleave depends on when they
\* were set, but a timeout fires after every timeout that was set before it
\* with a delay that is not longer.
HookTimeout(b, response) ==
  /\ Mounted /\ variant = "pipecatHook"
  /\ b \in DOMAIN replyTimers
  /\ LET t == Head(replyTimers[b])
         line == CASE t.effect = "append" -> t.text
                   [] t.effect = "reply" -> "AI Dispatcher: " \o response \o "\n\n"
                   [] OTHER -> ""
     IN  /\ \A a \in 1..(b - 1) : \A i \in DOMAIN replyTimers[a] :
               replyTimers[a][i].greatest > t.least
         /\ (t.effect = "reply") \/ (response = CHOOSE r \in responses : TRUE)
         /\ transcript' = transcript \o line
         /\ isConnected' = (isConnected \/ t.effect = "connect")
         /\ log' = IF line = "" THEN log
                   ELSE Append(log, [role |-> "agent", content |-> line])
  /\ replyTimers' =
       IF Len(replyTimers[b]) = 1
         THEN SubSeq(replyTimers, 1, b - 1) \o SubSeq(replyTimers, b + 1, Len(replyTimers))
         ELSE [replyTimers EXCEPT ![b] = Tail(@)]
  /\ UNCHANGED <<variant, appVars, hook, isCallInProgress, startStep, retellClient, greetingTimer,
                 recognitionRef, orphanRecognition, isMuted, spoken, saves>>

\* the mute button of this interface: setIsMuted(!isMuted), nothing else
HookToggleMute ==
  /\ Mounted /\ variant = "pipecatHook"
  /\ isCallInProgress \/ isConnected
  /\ isMuted' = ~isMuted
  /\ UNCHANGED <<variant, appVars, hook, isConnected, isCallInProgress, transcript, startStep,
                 retellClient, greetingTimer, recognitionRef, orphanRecognition, replyTimers,
                 log, spoken, saves>>

\* endCall: usePipecat's endCall (the socket and the voice capture are
\* closed, isConnected and isLoading are cleared), setIsCallInProgress(false).
\* onCallEnd is not called and no timeout is cleared.
HookEndCall ==
  /\ Mounted /\ variant = "pipecatHook"
  /\ isCallInProgress \/ isConnected
  /\ isCallInProgress' = FALSE
  /\ isConnected' = FALSE
  /\ recognitionRef' = "null"
  /\ replyTimers' = [b \in DOMAIN replyTimers |->
                       [i \in DOMAIN replyTimers[b] |->
                          [replyTimers[b][i] EXCEPT !.ended = TRUE]]]
  /\ UNCHANGED <<variant, appVars, hook, transcript, startStep, retellClient, greetingTimer,
                 orphanRecognition, isMuted, log, spoken, saves>>

(***************************************************************************)
(* Specification                                                           *)
(***************************************************************************)
\* the operator at the configuration form, the navigation bar and the results
AppStep ==
  \/ \E s \in ScenarioTypes : loadScenarioTemplate(s)
  \/ \E text \in PhraseInputs : setEmergencyPhrases(text)
  \/ handleSave
  \/ onStartCall
  \/ \E view \in {"config", "call", "results"} : onViewChange(view)
  \/ onBack
  \/ onNewCall
  \/ onBackToConfig

RetellStep ==
  \/ RetellStartCall
  \/ \E outcome \in {"access_token", "no_token", "rejected"} : RetellStartSettles(outcome)
  \/ RetellSimulatedGreeting
  \/ \E entry \in RetellEntries : RetellUpdate(entry)
  \/ RetellConversationEnded
  \/ RetellEndCall

PipecatStep ==
  \/ \E recognizer, ok \in BOOLEAN : PipecatStartCall(recognizer, ok)
  \/ \E u \in DriverUtterances : SpeechResult(u)
  \/ DispatcherReply
  \/ handleToggleMute
  \/ PipecatEndCall

HookStep ==
  \/ \E outcome \in {"web_call_link", "no_link", "rejected"} : HookStartCall(outcome)
  \/ \E u \in HookUtterances : HookSpeechResult(u)
  \/ \E b \in DOMAIN replyTimers, response \in responses : HookTimeout(b, response)
  \/ HookToggleMute
  \/ HookEndCall

Next ==
  \/ AppStep
  \/ RetellStep
  \/ PipecatStep
  \/ HookStep

Spec == Init /\ [][Next]_vars

\* a build whose CallInterface is the Retell one
InitRetell == Init /\ variant = "retell"
NextRetell ==
  \/ AppStep
  \/ RetellStep
SpecRetell == InitRetell /\ [][NextRetell]_vars

\* a build whose CallInterface is the PIPECAT one
InitPipecat == Init /\ variant = "pipecat"
NextPipecat ==
  \/ AppStep
  \/ PipecatStep
SpecPipecat == InitPipecat /\ [][NextPipecat]_vars

\* a build whose CallInterface is the one on the usePipecat hook
InitHook == Init /\ variant = "pipecatHook"
NextHook ==
  \/ handleSave
  \/ onStartCall
  \/ \E view \in {"config", "call", "results"} : onViewChange(view)
  \/ onBack
  \/ HookStep
SpecHook == InitHook /\ [][NextHook]_vars

(***************************************************************************)
(* The hooks on their own (usePipecat.ts, useRetell.ts), called the way    *)
(* the call interfaces call them                                           *)
(***************************************************************************)
MaxTimeouts == 2

\* what a callback of the hook reads and writes: the hook's state and refs
HookState == [isConnected |-> isConnected] @@ hook
Commit(h) ==
  /\ isConnected' = h.isConnected
  /\ hook' = [f \in DOMAIN hook |-> h[f]]

\* the id window.setInterval / window.setTimeout returns: one that names no
\* interval or timeout that is set and that no ref holds
NewId(h) ==
  LET used == h.intervals \cup {h.timeouts[i].id : i \in DOMAIN h.timeouts}
                \cup {h.timerRef, h.connectionTimeoutRef}
  IN  CHOOSE id \in 1..(Cardinality(used) + 1) :
        id \notin used /\ \A other \in 1..(id - 1) : other \in used

\* startTimer without the test of timerRef.current
startTimerUnguarded(h) ==
  [h EXCEPT !.timerRef = NewId(h), !.intervals = @ \cup {NewId(h)}]

startTimer(h) ==
  IF h.timerRef # 0 THEN h
  ELSE [h EXCEPT !.timerRef = NewId(h), !.intervals = @ \cup {NewId(h)}]

stopTimer(h) ==
  IF h.timerRef # 0
    THEN [h EXCEPT !.intervals = @ \ {h.timerRef}, !.timerRef = 0]
    ELSE h

clearConnectionTimeout(h) ==
  IF h.connectionTimeoutRef # 0
    THEN [h EXCEPT !.timeouts = SelectSeq(@, LAMBDA t : t.id # h.connectionTimeoutRef),
                   !.connectionTimeoutRef = 0]
    ELSE h

\* handleConnected of the render that made the callback, in which
\* isConnected had the value seen
handleConnected(h, seenIsConnected) ==
  IF ~seenIsConnected
    THEN clearConnectionTimeout(startTimer([h EXCEPT !.isConnected = TRUE, !.isLoading = FALSE]))
    ELSE h

\* window.setTimeout(callback, delay): the callback's kind and the isLoading
\* and isConnected of the render that made it
setTimeout(h, kind, delay, seenIsLoading, seenIsConnected) ==
  [h EXCEPT !.timeouts = Append(@, [id |-> NewId(h), kind |-> kind, delay |-> delay,
                                    isLoading |-> seenIsLoading,
                                    isConnected |-> seenIsConnected])]

\* setIsConnected(false); setIsLoading(false); stopTimer()
disconnected(h) == stopTimer([h EXCEPT !.isConnected = FALSE, !.isLoading = FALSE])

HookMounted(name) == variant = name /\ Mounted

\* usePipecat's resetCall
usePipecatResetCall ==
  /\ HookMounted("usePipecat")
  /\ ~hook.isLoading /\ ~isConnected
  /\ transcript' = ""
  /\ Commit(clearConnectionTimeout(disconnected(HookState)))
  /\ UNCHANGED <<variant, appVars, isCallInProgress, startStep, retellClient, greetingTimer,
                 recognitionRef, orphanRecognition, isMuted, replyTimers, log, spoken, saves>>

\* usePipecat's startCall, called from a render in which isLoading and
\* isConnected are false (CallInterface.tsx, lines 49 and 128).  A link of
\* the demo server sets the timeout of 1500 ms and returns; another link
\* opens a socket and sets the connection timeout of 10000 ms.
usePipecatStartCall(demo) ==
  /\ HookMounted("usePipecat")
  /\ ~hook.isLoading /\ ~isConnected
  /\ Len(hook.timeouts) < MaxTimeouts
  /\ LET h == [HookState EXCEPT !.isLoading = TRUE, !.phase = "started"]
     IN  IF demo
           THEN Commit(setTimeout(h, "demo", 1500, hook.isLoading, isConnected))
           ELSE Commit([setTimeout(h, "connection", 10000, hook.isLoading, isConnected)
                          EXCEPT !.webSocketRef = "connecting",
                                 !.connectionTimeoutRef = NewId(h)])
  /\ UNCHANGED <<variant, appVars, isCallInProgress, transcript, startStep, retellClient,
                 greetingTimer, recognitionRef, orphanRecognition, isMuted, replyTimers,
                 log, spoken, saves>>

\* ws.onopen: handleConnected of the render startCall was called from
usePipecatOpen ==
  /\ HookMounted("usePipecat")
  /\ hook.webSocketRef = "connecting"
  /\ Commit(handleConnected([HookState EXCEPT !.webSocketRef = "open"], FALSE))
  /\ UNCHANGED <<variant, appVars, isCallInProgress, transcript, startStep, retellClient,
                 greetingTimer, recognitionRef, orphanRecognition, isMuted, replyTimers,
                 log, spoken, saves>>

\* ws.onmessage with a message of type 'transcript'
usePipecatMessage(speaker, text) ==
  /\ HookMounted("usePipecat")
  /\ hook.webSocketRef = "open"
  /\ spoken < MaxHookSpeech
  /\ spoken' = spoken + 1
  /\ transcript' = transcript \o speaker \o ": " \o text \o "\n\n"
  /\ UNCHANGED <<variant, appVars, isConnected, hook, isCallInProgress, startStep,
                 retellClient, greetingTimer, recognitionRef, orphanRecognition, isMuted,
                 replyTimers, log, saves>>

\* ws.onerror and ws.onclose
usePipecatClose ==
  /\ HookMounted("usePipecat")
  /\ hook.webSocketRef \in {"connecting", "open"}
  /\ Commit(disconnected([HookState EXCEPT !.webSocketRef = "closed"]))
  /\ UNCHANGED <<variant, appVars, isCallInProgress, transcript, startStep, retellClient,
                 greetingTimer, recognitionRef, orphanRecognition, isMuted, replyTimers,
                 log, spoken, saves>>

\* usePipecat's endCall: cleanupWebSocket, cleanupAudio, the flags,
\* stopTimer, clearConnectionTimeout
usePipecatEndCall ==
  /\ HookMounted("usePipecat")
  /\ hook.phase = "started" \/ isConnected
  /\ Commit(clearConnectionTimeout(disconnected(
              [HookState EXCEPT !.webSocketRef = "null", !.phase = "ended"])))
  /\ UNCHANGED <<variant, appVars, isCallInProgress, transcript, startStep, retellClient,
                 greetingTimer, recognitionRef, orphanRecognition, isMuted, replyTimers,
                 log, spoken, saves>>

\* useRetell's startCall, called from a render in which isLoading is false
\* (ScenarioCard.tsx, line 148): initializeClient, client.startCall, then the
\* timeouts of 5000 ms and of 1000 ms; a rejection ends in the catch block
useRetellStartCall(resolves) ==
  /\ HookMounted("useRetell")
  /\ ~hook.isLoading
  /\ Len(hook.timeouts) < MaxTimeouts
  /\ LET h == [HookState EXCEPT !.isLoading = TRUE, !.phase = "started"]
         first == setTimeout(h, "connection", 5000, hook.isLoading, isConnected)
     IN  IF resolves
           THEN Commit([setTimeout(first, "connection", 1000, hook.isLoading, isConnected)
                          EXCEPT !.clientRef = "call",
                                 !.connectionTimeoutRef = NewId(h)])
           ELSE Commit([h EXCEPT !.isConnected = FALSE, !.isLoading = FALSE,
                                 !.clientRef = IF @ = "null" THEN "idle" ELSE @])
  /\ UNCHANGED <<variant, appVars, isCallInProgress, transcript, startStep, retellClient,
                 greetingTimer, recognitionRef, orphanRecognition, isMuted, replyTimers,
                 log, spoken, saves>>

\* the client's conversationStarted, call_started, agent_start_talking,
\* call_connected and room_connected: handleConnected of the render that
\* made the client, the first one to call startCall, where isConnected is false
useRetellConnected ==
  /\ HookMounted("useRetell")
  /\ hook.clientRef = "call"
  /\ Commit(handleConnected(HookState, FALSE))
  /\ UNCHANGED <<variant, appVars, isCallInProgress, transcript, startStep, retellClient,
                 greetingTimer, recognitionRef, orphanRecognition, isMuted, replyTimers,
                 log, spoken, saves>>

\* the client's conversationEnded, and its error other than a state mismatch
useRetellConversationEnded ==
  /\ HookMounted("useRetell")
  /\ hook.clientRef = "call"
  /\ Commit(clearConnectionTimeout(disconnected([HookState EXCEPT !.clientRef = "idle"])))
  /\ UNCHANGED <<variant, appVars, isCallInProgress, transcript, startStep, retellClient,
                 greetingTimer, recognitionRef, orphanRecognition, isMuted, replyTimers,
                 log, spoken, saves>>

\* the client's error 'state mismatch': a timeout of 1000 ms that tests the
\* isLoading of the render that made the client, which is false
useRetellStateMismatch ==
  /\ HookMounted("useRetell")
  /\ hook.clientRef = "call"
  /\ Len(hook.timeouts) < MaxTimeouts
  /\ Commit(setTimeout(HookState, "mismatch", 1000, FALSE, FALSE))
  /\ UNCHANGED <<variant, appVars, isCallInProgress, transcript, startStep, retellClient,
                 greetingTimer, recognitionRef, orphanRecognition, isMuted, replyTimers,
                 log, spoken, saves>>

\* useRetell's endCall: stopCall, the flags, stopTimer, clearConnectionTimeout
useRetellEndCall ==
  /\ HookMounted("useRetell")
  /\ hook.phase = "started" \/ isConnected
  /\ Commit(clearConnectionTimeout(disconnected(
              [HookState EXCEPT !.clientRef = IF @ = "null" THEN @ ELSE "idle",
                                !.phase = "ended"])))
  /\ UNCHANGED <<variant, appVars, isCallInProgress, transcript, startStep, retellClient,
                 greetingTimer, recognitionRef, orphanRecognition, isMuted, replyTimers,
                 log, spoken, saves>>

\* a timeout of either hook fires, after every timeout that was set before
\* it with a delay that is not longer
TimeoutFires(i) ==
  /\ HookMounted("usePipecat") \/ HookMounted("useRetell")
  /\ i \in DOMAIN hook.timeouts
  /\ \A j \in 1..(i - 1) : hook.timeouts[j].delay > hook.timeouts[i].delay
  /\ LET t == hook.timeouts[i]
         h == [HookState EXCEPT !.timeouts = SubSeq(@, 1, i - 1) \o SubSeq(@, i + 1, Len(@))]
     IN  CASE t.kind = "demo" ->
                Commit(startTimer([h EXCEPT !.isConnected = TRUE, !.isLoading = FALSE]))
           [] t.kind = "connection" ->
                Commit(IF t.isLoading /\ ~t.isConnected
                         THEN handleConnected(h, t.isConnected) ELSE h)
           [] t.kind = "mismatch" ->
                Commit(IF t.isLoading THEN handleConnected(h, t.isConnected) ELSE h)
  /\ UNCHANGED <<variant, appVars, isCallInProgress, transcript, startStep, retellClient,
                 greetingTimer, recognitionRef, orphanRecognition, isMuted, replyTimers,
                 log, spoken, saves>>

InitHooks ==
  /\ variant \in {"usePipecat", "useRetell"}
  /\ currentView = "call"
  /\ agentConfig = <<initialConfig>>
  /\ callResult = <<>>
  /\ config = initialConfig
  /\ isCallInProgress = FALSE
  /\ transcript = ""
  /\ startStep = "idle"
  /\ retellClient = FALSE
  /\ greetingTimer = FALSE
  /\ recognitionRef = "null"
  /\ orphanRecognition = FALSE
  /\ isMuted = FALSE
  /\ replyTimers = <<>>
  /\ isConnected = FALSE
  /\ hook = FreshHook
  /\ log = <<>>
  /\ spoken = 0
  /\ saves = 1

HookTimers == \E i \in DOMAIN hook.timeouts : TimeoutFires(i)

NextHooks ==
  \/ usePipecatResetCall
  \/ \E demo \in BOOLEAN : usePipecatStartCall(demo)
  \/ usePipecatOpen
  \/ \E speaker \in {"Dispatcher"}, text \in HookUtterances : usePipecatMessage(speaker, text)
  \/ usePipecatClose
  \/ usePipecatEndCall
  \/ \E resolves \in BOOLEAN : useRetellStartCall(resolves)
  \/ useRetellConnected
  \/ useRetellConversationEnded
  \/ useRetellStateMismatch
  \/ useRetellEndCall
  \/ HookTimers
SpecHooks == InitHooks /\ [][NextHooks]_vars

\* the browser runs a timeout that is due
SpecHooksFair == InitHooks /\ [][NextHooks]_vars /\ WF_vars(HookTimers)

(***************************************************************************)
(* useError on its own (hooks/useError.ts)                                 *)
(***************************************************************************)
MaxErrors == 4

ErrorSeverity == {"low", "medium", "high", "critical"}
ErrorCodes == {"INVALID_CONFIGURATION", "INITIALIZATION_ERROR", "NETWORK_ERROR", "API_ERROR"}

\* useError after the first render: errorState, retryAction (TRUE for a
\* function), the timeouts of the effect that are set, each with the
\* ApplicationError of the render that set it, and the number of
\* ApplicationError objects made so far, which tells them apart
FreshError ==
  [error |-> <<>>, isVisible |-> FALSE, retryAction |-> FALSE, timers |-> {}, created |-> 0]

\* the effect without its cleanup function
useEffectNoCleanup(before, after) ==
  IF before.isVisible = after.isVisible /\ before.error = after.error
    THEN after
    ELSE [after EXCEPT !.timers =
            @ \cup (IF after.isVisible /\ after.error # <<>>
                       /\ after.error[1].severity # "critical"
                      THEN {[of |-> after.error[1].id]} ELSE {})]

\* the effect of lines 40-45 after a render: when isVisible or error have
\* changed, the cleanup of the last run clears its timeout, then a timeout
\* is set for an error that is visible and not critical
useEffectAutoClear(before, after) ==
  IF before.isVisible = after.isVisible /\ before.error = after.error
    THEN after
    ELSE [after EXCEPT !.timers =
            {t \in @ : before.error = <<>> \/ t.of # before.error[1].id}
              \cup (IF after.isVisible /\ after.error # <<>>
                       /\ after.error[1].severity # "critical"
                      THEN {[of |-> after.error[1].id]} ELSE {})]

ErrorUnchanged ==
  UNCHANGED <<variant, appVars, isConnected, isCallInProgress, transcript, startStep,
              retellClient, greetingTimer, recognitionRef, orphanRecognition, isMuted,
              replyTimers, log, spoken, saves>>

\* showError with a new ApplicationError, or with the one that is shown
showError(code, severity, again) ==
  /\ variant = "useError"
  /\ IF again
       THEN /\ hook.error # <<>>
            /\ hook' = useEffectAutoClear(hook, [hook EXCEPT !.isVisible = TRUE])
       ELSE /\ hook.created < MaxErrors
            /\ hook' = useEffectAutoClear(hook,
                 [hook EXCEPT !.error = <<[id |-> hook.created + 1, code |-> code,
                                           severity |-> severity]>>,
                              !.isVisible = TRUE,
                              !.created = @ + 1])
  /\ ErrorUnchanged

cleared(h) == [h EXCEPT !.error = <<>>, !.isVisible = FALSE, !.retryAction = FALSE]

\* clearError, from the close button of ErrorDisplay
clearError ==
  /\ variant = "useError"
  /\ hook' = useEffectAutoClear(hook, cleared(hook))
  /\ ErrorUnchanged

setRetryAction(action) ==
  /\ variant = "useError"
  /\ hook' = [hook EXCEPT !.retryAction = action]
  /\ ErrorUnchanged

\* a timeout of the effect fires: clearError
AutoClearFires ==
  /\ variant = "useError"
  /\ \E t \in hook.timers :
       hook' = useEffectAutoClear(hook, cleared([hook EXCEPT !.timers = @ \ {t}]))
  /\ ErrorUnchanged

InitError ==
  /\ variant = "useError"
  /\ currentView = "config"
  /\ agentConfig = <<>>
  /\ callResult = <<>>
  /\ config = initialConfig
  /\ isCallInProgress = FALSE
  /\ transcript = ""
  /\ startStep = "idle"
  /\ retellClient = FALSE
  /\ greetingTimer = FALSE
  /\ recognitionRef = "null"
  /\ orphanRecognition = FALSE
  /\ isMuted = FALSE
  /\ replyTimers = <<>>
  /\ isConnected = FALSE
  /\ hook = FreshError
  /\ log = <<>>
  /\ spoken = 0
  /\ saves = 0

NextError ==
  \/ \E code \in ErrorCodes, severity \in ErrorSeverity, again \in BOOLEAN :
       showError(code, severity, again)
  \/ clearError
  \/ \E action \in BOOLEAN : setRetryAction(action)
  \/ AutoClearFires
SpecError == InitError /\ [][NextError]_vars

(***************************************************************************)
(* The summarizers on their own: a call that is connected and has heard a  *)
(* bounded conversation, then End Call                                     *)
(***************************************************************************)
MaxLines == 2

\* what is said in the conversations the summarizers are applied to
SummaryLines ==
  [role : {"user"},
   content : {"I just had a blowout on I-10", "I was in an accident",
              "My truck had a breakdown", "I have arrived at the dock",
              "Running late, heavy traffic", "I am on I-10, mile marker 85",
              "All good"}]
    \cup [role : {"agent"}, content : {AgentGreeting}]

RECURSIVE SeqsOfLen(_, _)
SeqsOfLen(S, n) ==
  IF n = 0 THEN {<<>>} ELSE {Append(s, x) : s \in SeqsOfLen(S, n - 1), x \in S}
SeqsUpTo(S, n) == UNION {SeqsOfLen(S, k) : k \in 0..n}

\* the configurations handleSave can have stored
SavedConfigs ==
  {[scenarioType |-> s, emergencyPhrases |-> p, structuredFields |-> SCENARIO_FIELDS[s]] :
     s \in ScenarioTypes,
     p \in {DEFAULT_EMERGENCY_PHRASES} \cup {parsePhrases(text) : text \in PhraseInputs}}

\* the PIPECAT conversation in which the driver said these utterances and
\* every reply of the dispatcher has arrived
RECURSIVE pipecatLog(_)
pipecatLog(utterances) ==
  IF utterances = <<>> THEN <<[role |-> "agent", content |-> pipecatGreeting]>>
  ELSE LET n == Len(utterances)
       IN  pipecatLog(SubSeq(utterances, 1, n - 1))
             \o <<[role |-> "user", content |-> utterances[n]],
                  [role |-> "agent",
                   content |-> generateDispatcherResponse(toLowerCase(utterances[n]))]>>
RECURSIVE pipecatTranscript(_)
pipecatTranscript(utterances) ==
  IF utterances = <<>> THEN pipecatBanner
  ELSE LET n == Len(utterances)
       IN  pipecatTranscript(SubSeq(utterances, 1, n - 1))
             \o "Driver: " \o utterances[n] \o "\n\n"
             \o "Dispatcher: " \o generateDispatcherResponse(toLowerCase(utterances[n]))
             \o "\n\n"

InitSummary ==
  /\ variant \in {"retell", "pipecat"}
  /\ currentView = "call"
  /\ agentConfig \in {<<c>> : c \in SavedConfigs}
  /\ callResult = <<>>
  /\ config = initialConfig
  /\ isCallInProgress = TRUE
  /\ startStep = "idle"
  /\ greetingTimer = FALSE
  /\ orphanRecognition = FALSE
  /\ isMuted = FALSE
  /\ replyTimers = <<>>
  /\ isConnected = FALSE
  /\ hook = FreshHook
  /\ saves = 1
  /\ spoken = 0
  /\ \/ /\ variant = "retell"
        /\ retellClient = TRUE
        /\ recognitionRef = "null"
        /\ log \in SeqsUpTo(SummaryLines, MaxLines)
        /\ transcript = IF log = <<>> THEN "" ELSE updateTranscript(log)
     \/ /\ variant = "pipecat"
        /\ retellClient = FALSE
        /\ recognitionRef = "running"
        /\ \E utterances \in SeqsUpTo({l.content : l \in {e \in SummaryLines : e.role = "user"}},
                                      MaxLines) :
             /\ log = pipecatLog(utterances)
             /\ transcript = pipecatTranscript(utterances)

NextSummary ==
  \/ RetellEndCall
  \/ PipecatEndCall
SpecSummary == InitSummary /\ [][NextSummary]_vars

\* a PIPECAT call under the initial configuration that goes on after such a
\* conversation
InitDialogue == InitSummary /\ variant = "pipecat" /\ agentConfig = <<initialConfig>>
NextDialogue ==
  \/ \E u \in DriverUtterances : SpeechResult(u)
  \/ DispatcherReply
  \/ PipecatEndCall
SpecDialogue == InitDialogue /\ [][NextDialogue]_vars

(***************************************************************************)
(* generateDispatcherResponse on its keywords: a PIPECAT call that has     *)
(* just been connected hears messages that are one keyword each            *)
(***************************************************************************)
\* the keywords of the rules of generateDispatcherResponse, in its order
RuleKeywords ==
  <<{"emergency", "accident", "help"},
    {"hear me", "hello", "can you", "hi "},
    {"location", "mile", "highway", "exit"},
    {"delay", "late", "traffic", "behind"},
    {"delivered", "unload", "complete"},
    {"fuel", "break", "rest"},
    {"weather", "snow", "rain", "road"},
    {"breakdown", "truck", "tire", "mechanical"},
    {"no", "nothing", "assist", "can't help"}>>
KeywordMessages == UNION {RuleKeywords[r] : r \in DOMAIN RuleKeywords}

InitKeywords == InitDialogue /\ log = pipecatLog(<<>>)
NextKeywords ==
  \/ \E u \in KeywordMessages : SpeechResult(u)
  \/ DispatcherReply
SpecKeywords == InitKeywords /\ [][NextKeywords]_vars

(***************************************************************************)
(* The 'update' handler of useRetell on its own: a connected Retell call   *)
(* that receives updates                                                   *)
(***************************************************************************)
InitUpdates == InitSummary /\ variant = "retell" /\ agentConfig = <<initialConfig>> /\ log = <<>>
NextUpdates ==
  \/ \E entry \in RetellEntries : RetellUpdate(entry)
SpecUpdates == InitUpdates /\ [][NextUpdates]_vars

(***************************************************************************)
(* Vocabulary of the properties                                            *)
(***************************************************************************)
Range(seq) == {seq[i] : i \in 1..Len(seq)}

\* the text holds the keyword as a substring, ignoring case
mentions(text, keyword) == includes(toLowerCase(text), toLowerCase(keyword))

\* what the driver said in a call, and what the dispatcher or the AI said
DriverLines(entries) ==
  {entries[i].content : i \in {j \in 1..Len(entries) : entries[j].role = "user"}}
AgentLines(entries) ==
  {entries[i].content : i \in {j \in 1..Len(entries) : entries[j].role = "agent"}}

\* the active emergency list of a finished call: AgentConfig.emergencyPhrases
ActivePhrases(r) == Range(r.agentConfig.emergencyPhrases)

\* some driver utterance of the call holds a phrase of the active list
DriverEmergency(r) ==
  \E u \in DriverLines(r.log) : \E p \in ActivePhrases(r) : mentions(u, p)

\* every word either detector can react to: the active list and the literals
\* the two summarizers test
AnyEmergencyWord(r) ==
  ActivePhrases(r) \cup {"emergency", "blowout", "accident", "breakdown"} \cup emergencyKeywords

\* the emergency outcome, as generateSummary and as analyzeCallTranscript name it
EmergencyOutcomes == {"Emergency Escalation", "emergency"}

EmergencyFields ==
  {"emergency_type", "safety_status", "injury_status", "emergency_location",
   "load_secure", "escalation_status"}

\* the detector of the Retell interface fires on the transcript
Detected(t) == generateSummary(t).call_outcome = "Emergency Escalation"

(***************************************************************************)
(* Properties                                                              *)
(***************************************************************************)
\* C1: a call in which at least one driver utterance holds a phrase of the
\* active emergency list ends with a summary whose call_outcome is
\* "Emergency Escalation", whatever else was said.
C1_EmergencyKeywordEscalates ==
  callResult # <<>> /\ DriverEmergency(callResult[1])
    => callResult[1].summary.call_outcome = "Emergency Escalation"

\* C2: a call in which no driver utterance holds a phrase of the active
\* emergency list ends with call_outcome "In-Transit Update" or
\* "Arrival Confirmation", never "Emergency Escalation".
C2_NoKeywordNoEscalation ==
  callResult # <<>> /\ ~DriverEmergency(callResult[1])
    => callResult[1].summary.call_outcome \in {"In-Transit Update", "Arrival Confirmation"}

\* C3: within one call the emergency condition is a one-way latch: once the
\* detector fires on the transcript so far, it fires on the transcript after
\* every later event of that call, 'update' events included.
C3_EmergencyLatch ==
  [][(isCallInProgress /\ isCallInProgress' /\ Detected(transcript))
       => Detected(transcript')]_vars

\* C4: the configured phrases decide the outcome: a call that consists of one
\* driver utterance ends with the emergency outcome exactly when the
\* utterance holds a phrase of AgentConfig.emergencyPhrases.
C4_ConfiguredPhrasesDecide ==
  callResult # <<>>
    /\ Len(callResult[1].log) = 1 /\ callResult[1].log[1].role = "user"
    => (callResult[1].summary.call_outcome \in EmergencyOutcomes
          <=> DriverEmergency(callResult[1]))

\* C5: only driver utterances are scanned: a call whose emergency words occur
\* in dispatcher or AI lines alone does not end with the emergency outcome.
C5_OnlyDriverLinesScanned ==
  callResult # <<>>
    /\ (\A u \in DriverLines(callResult[1].log) :
          \A w \in AnyEmergencyWord(callResult[1]) : ~mentions(u, w))
    /\ (\E a \in AgentLines(callResult[1].log) :
          \E w \in AnyEmergencyWord(callResult[1]) : mentions(a, w))
    => callResult[1].summary.call_outcome \notin EmergencyOutcomes

\* C6: during a call, when the driver utterance that a dispatcher reply answers
\* holds a phrase of the active emergency list, the reply is the emergency
\* response of generateDispatcherResponse; no other rule wins.
C6_EmergencyReplyPreempts ==
  [][(/\ replyTimers # <<>>
      /\ replyTimers' = Tail(replyTimers)
      /\ Len(log') = Len(log) + 1
      /\ isCallInProgress /\ agentConfig # <<>>
      /\ \E p \in Range(agentConfig[1].emergencyPhrases) : mentions(Head(replyTimers), p))
       => log'[Len(log')].content = dispatcherText(1)]_vars

\* C7: the summary holds no key outside the field list of the scenario in
\* force plus call_outcome; with driver_checkin it never holds emergency_type.
C7_NoKeyOutsideScenario ==
  callResult # <<>>
    => DOMAIN callResult[1].summary
         \subseteq (Range(callResult[1].agentConfig.structuredFields) \cup {"call_outcome"})

\* C8: every field key of the scenario in force is present in the summary.
C8_EveryScenarioKeyPresent ==
  callResult # <<>>
    => Range(callResult[1].agentConfig.structuredFields) \subseteq DOMAIN callResult[1].summary

\* C9: a summary whose outcome is the emergency one holds each of
\* emergency_type, safety_status, injury_status, emergency_location,
\* load_secure and escalation_status.
C9_EmergencyFieldsPresent ==
  callResult # <<>> /\ callResult[1].summary.call_outcome \in EmergencyOutcomes
    => EmergencyFields \subseteq DOMAIN callResult[1].summary

\* C10: a call that ends before any utterance, with an empty transcript, gets
\* a summary whose call_outcome is "Incomplete".
C10_EmptyTranscriptIncomplete ==
  callResult # <<>> /\ callResult[1].transcript = "" /\ callResult[1].log = <<>>
    => callResult[1].summary.call_outcome = "Incomplete"

\* C11: every field of type 'select' that a produced summary holds
\* (call_outcome, driver_status, delay_reason, unloading_status,
\* emergency_type) has a value of that field's options list in
\* FIELD_DEFINITIONS.
C11_SelectValuesFromOptions ==
  callResult # <<>>
    => \A k \in (DOMAIN callResult[1].summary) \cap (DOMAIN FIELD_OPTIONS) :
         callResult[1].summary[k] \in FIELD_OPTIONS[k]

NamesMileMarker(text) ==
  \E i \in 1..Len(text) : LitAt(text, i, "mile marker ") /\ DigitRun(text, i + 12) > 0

\* C13: current_location is chosen by priority, not by position: when the
\* transcript names a mile marker, current_location holds the mile marker,
\* also when a highway is named before it.
C13_MileMarkerBeforeHighway ==
  (/\ callResult # <<>>
   /\ callResult[1].variant = "retell"
   /\ NamesMileMarker(callResult[1].transcript))
    => NamesMileMarker(callResult[1].summary.current_location)

\* C14: the emergency_type of an escalated call names the incident of the
\* transcript: "Accident" for an accident, "Breakdown" for a breakdown or a
\* blowout, "Medical" for a medical emergency, and "Other" only when the
\* transcript reports none of these.
C14_EmergencyTypeNamesIncident ==
  (/\ callResult # <<>>
   /\ callResult[1].variant = "retell"
   /\ callResult[1].summary.call_outcome = "Emergency Escalation")
    => LET t == callResult[1].transcript
           type == callResult[1].summary.emergency_type
           accident == mentions(t, "accident")
           breakdown == mentions(t, "breakdown") \/ mentions(t, "blowout")
           medical == mentions(t, "medical")
       IN  /\ accident /\ ~breakdown /\ ~medical => type = "Accident"
           /\ breakdown /\ ~accident /\ ~medical => type = "Breakdown"
           /\ medical /\ ~accident /\ ~breakdown => type = "Medical"
           /\ type = "Other" => ~(accident \/ breakdown \/ medical)

C16_EveryEndHandsSummary ==
  [][(/\ isCallInProgress
      /\ retellClient /\ ~retellClient'
      /\ ~(currentView' # "call" /\ callResult' = callResult))
       => (/\ currentView' = "results"
           /\ callResult' # <<>>
           /\ callResult'[1].transcript = transcript)]_vars

\* CallSummary: the keys every summary must hold (the ones not marked '?')
RequiredSummaryFields ==
  {"call_outcome", "driver_status", "current_location", "eta", "delay_reason",
   "unloading_status", "pod_reminder_acknowledged"}

\* C17: when the scenario in force does not define a field the extractor
\* needs, the call ends with an error result that carries no summary.
C17_FailsClosed ==
  (/\ callResult # <<>>
   /\ ~(RequiredSummaryFields \subseteq Range(callResult[1].agentConfig.structuredFields)))
    => "summary" \notin DOMAIN callResult[1]

\* the number of words of an utterance
WordCount(u) ==
  Cardinality({i \in 1..Len(u) :
                 /\ CharAt(u, i) \notin SpaceChars
                 /\ (i = 1 \/ CharAt(u, i - 1) \in SpaceChars)})

\* the last three answers of the driver were terse: under three words each
ThreeTerseAnswers(entries) ==
  LET D == SelectSeq(entries, LAMBDA e : e.role = "user")
      n == Len(D)
  IN  n >= 3 /\ \A i \in (n - 2)..n : WordCount(D[i].content) < 3

\* C18: once the driver has given three consecutive terse answers and the
\* dispatcher has reacted to the third, the call is terminated: it is not in
\* progress any more.
C18_ThreeTerseAnswersTerminate ==
  ~(/\ variant = "pipecat"
    /\ Mounted
    /\ isCallInProgress
    /\ replyTimers = <<>>
    /\ ThreeTerseAnswers(log))

\* the topics of the emergency protocol, by the words of its questions
AsksSafety(line) == mentions(line, "safe")
AsksLocation(line) == mentions(line, "location")
AsksIncident(line) == mentions(line, "what exactly happened")
AsksLoadSecurity(line) == mentions(line, "load") /\ mentions(line, "secure")
Escalates(line) == mentions(line, "escalating") \/ mentions(line, "human dispatcher")

\* C19: in a call, a line of the dispatcher that escalates comes only after
\* the dispatcher has asked, in this order and in earlier lines, about
\* safety, the location, the incident and the security of the load.
C19_EscalationAfterQuestions ==
  \A e \in 1..Len(log) :
    (isCallInProgress /\ log[e].role = "agent" /\ Escalates(log[e].content))
      => \E a, b, c, d \in 1..Len(log) :
           /\ a < b /\ b < c /\ c < d /\ d < e
           /\ \A i \in {a, b, c, d} : log[i].role = "agent"
           /\ AsksSafety(log[a].content)
           /\ AsksLocation(log[b].content)
           /\ AsksIncident(log[c].content)
           /\ AsksLoadSecurity(log[d].content)

\* the oldest timeout of batch b of the interface on usePipecat fires
Fires(b) ==
  /\ variant = "pipecatHook"
  /\ b \in DOMAIN replyTimers
  /\ replyTimers' =
       IF Len(replyTimers[b]) = 1
         THEN SubSeq(replyTimers, 1, b - 1) \o SubSeq(replyTimers, b + 1, Len(replyTimers))
         ELSE [replyTimers EXCEPT ![b] = Tail(@)]

\* C20: while a call is in progress, a timeout that was set by a call which
\* has ended neither appends to the transcript nor changes the connection
\* state.
C20_NoTimeoutOfEndedCall ==
  [][\A b \in DOMAIN replyTimers :
       (isCallInProgress /\ Fires(b) /\ Head(replyTimers[b]).ended)
         => (transcript' = transcript /\ isConnected' = isConnected)]_vars

\* s is a prefix of t
IsPrefix(s, t) == Len(s) <= Len(t) /\ SubSeq(t, 1, Len(s)) = s

\* C21: during a call the transcript is append-only: the transcript before
\* a step is a prefix of the transcript after it.
C21_TranscriptAppendOnly ==
  [][(isCallInProgress /\ isCallInProgress') => IsPrefix(transcript, transcript')]_vars

\* C22: in usePipecat, from the return of endCall to the next startCall
\* isConnected is false and no call-duration interval is set.
C22_EndedCallStaysEnded ==
  (variant = "usePipecat" /\ hook.phase = "ended")
    => (~isConnected /\ hook.intervals = {})

\* C23: a call that was started does not stay loading for ever: when isLoading
\* is true, it is false at some later time.
C23_LoadingEnds == hook.isLoading ~> ~hook.isLoading

\* C30: in usePipecat and in useRetell at most one call-duration interval is
\* set at any time, and timerRef names it exactly while it is set; after
\* stopTimer (isConnected false) none is set.
C30_OneDurationTimer ==
  (variant \in {"usePipecat", "useRetell"}) =>
    /\ Cardinality(hook.intervals) <= 1
    /\ hook.intervals = (IF hook.timerRef = 0 THEN {} ELSE {hook.timerRef})

\* a call-duration interval is set while a timeout that will call startTimer
\* again is still pending
C30_TimerSetAndStartTimerDue ==
  /\ variant = "usePipecat"
  /\ hook.timerRef # 0
  /\ \E i \in DOMAIN hook.timeouts : hook.timeouts[i].kind = "demo"

\* C24: when the PIPECAT interface is not in a call (before a start, or
\* after a start that failed), speech recognition is not running and the
\* transcript is the one the last startCall left, which is empty.
C24_FailedStartLeavesNothingRunning ==
  (variant = "pipecat" /\ Mounted /\ ~isCallInProgress)
    => (recognitionRef # "running" /\ ~orphanRecognition /\ transcript = "")

\* C25: while isMuted is true no line of the driver is appended to the
\* transcript.
C25_NoDriverLineWhileMuted ==
  [][(isMuted /\ isMuted')
       => ~(/\ Len(log') = Len(log) + 1
            /\ log'[Len(log')].role = "user"
            /\ transcript' # transcript)]_vars

\* C26: whenever currentView is 'call' agentConfig is not null, and
\* whenever it is 'results' callResult is not null.
C26_ViewHasItsData ==
  /\ currentView = "call" => agentConfig # <<>>
  /\ currentView = "results" => callResult # <<>>

\* C27: in useError every pending auto-clear timeout was set for the error
\* that is shown now, that error is visible and not critical, and there is
\* at most one such timeout; so the timeout of a replaced error cannot hide
\* its successor and a critical error is hidden only by clearError.
C27_TimerBelongsToShownError ==
  variant = "useError" =>
    /\ Cardinality(hook.timers) <= 1
    /\ \A t \in hook.timers :
         /\ hook.isVisible /\ hook.error # <<>>
         /\ t.of = hook.error[1].id
         /\ hook.error[1].severity # "critical"

\* a second error has replaced the first while the first one's timeout was
\* pending, and its own timeout is pending
C27_SecondErrorShown ==
  /\ variant = "useError"
  /\ hook.isVisible /\ hook.error # <<>>
  /\ hook.error[1].id = 2 /\ hook.created = 2
  /\ hook.timers = {[of |-> 2]}

\* C28: a message whose only trigger is the keyword 'breakdown' is answered
\* with the response of the equipment rule (the eighth).
C28_BreakdownGetsEquipmentResponse ==
  [][(replyTimers # <<>> /\ replyTimers' = Tail(replyTimers)
        /\ Len(log') = Len(log) + 1 /\ Head(replyTimers) = "breakdown")
       => log'[Len(log')].content = dispatcherText(8)]_vars

\* C29: after an 'update' the transcript useRetell stores is never longer
\* than config.maxTranscriptLength; when the rendering of the update is
\* longer, the stored value is '...' followed by its last
\* maxTranscriptLength - 3 characters, else it is the rendering.
C29_TranscriptBounded ==
  (variant = "retell" /\ log # <<>>) =>
    LET rendering == renderUpdate(log) \o "\n\n"
        n == Len(rendering)
    IN  /\ Len(transcript) <= maxTranscriptLength
        /\ transcript =
             IF n > maxTranscriptLength
               THEN "..." \o SubSeq(rendering, n - (maxTranscriptLength - 3) + 1, n)
               ELSE rendering

\* an update longer than maxTranscriptLength has been stored
C29_TruncatedUpdateStored ==
  /\ variant = "retell" /\ log # <<>>
  /\ Len(renderUpdate(log) \o "\n\n") > maxTranscriptLength
  /\ Len(transcript) = maxTranscriptLength
  /\ SubSeq(transcript, 1, 3) = "..."
====
